---- MODULE Spec2Model ----
(***************************************************************************)
(* The prompt_toolkit based xonsh shell (xonsh/prompt_toolkit_shell.py):   *)
(* setup_history / teardown_history, PromptToolkitShell.__init__,          *)
(* __del__, cmdloop and _get_prompt_tokens_and_style, as a state machine.  *)
(***************************************************************************)
EXTENDS Integers, Sequences, FiniteSets, TLC

VARIABLES
    pc,            \* where the shell object is: "new", "idle", "top", "reading",
                   \* "dispatch", "default", "terminated", "raised"
    env,           \* builtins.__xonsh_env__
    exitflag,      \* builtins.__xonsh_exit__
    fs,            \* the history file and the process's permissions on it
    historyNone,   \* self.history is None (no history object yet)
    history,       \* self.history.strings, oldest first
    line,          \* the local variable line of cmdloop
    readArgs,      \* the arguments of the get_input call in progress
    calls,         \* the collaborator calls the last step made, in order
    raised,        \* the exception the last operation let out to its caller
    nAccepted,     \* number of non-empty lines get_input has returned
    nExec,         \* number of self.default (executor) calls
    saveCalls,     \* number of teardown_history calls
    loadSize,      \* XONSH_HISTORY_SIZE as it was when setup_history ran
    prevUser       \* PROMPT_TOOLKIT_STYLES as the last get_input call that
                   \* ended was styled with it

vars == <<pc, env, exitflag, fs, historyNone, history, line, readArgs, calls,
          raised, nAccepted, nExec, saveCalls, loadSize, prevUser>>

----------------------------------------------------------------------------
(* Bounds of the model *)

MaxSize == 2        \* XONSH_HISTORY_SIZE ranges over 0..MaxSize
MaxAccepted == 2    \* non-empty lines accepted in one behaviour
MaxSaves == 2       \* __del__ calls in one behaviour
MaxPrompt == 2      \* tokens of a prompt, where style resolution is explored

Lines == {"a", "b"}                 \* the non-empty input lines
Exc == {"KeyboardInterrupt", "EOFError", "Error"}
NoExc == "none"
HistFile == "xonsh_history"

----------------------------------------------------------------------------
(* Sequences *)

\* strings[-n:] for 0 < n, and nothing for n = 0: the last min(Len, n) entries
LastN(s, n) ==
    IF n >= Len(s) THEN s ELSE SubSeq(s, Len(s) - n + 1, Len(s))

Min(a, b) == IF a <= b THEN a ELSE b

----------------------------------------------------------------------------
(* Style tables: a dict from token to style string, as a total function    *)
(* over AllTokens in which Absent marks a key the dict does not hold.      *)

Absent == "<absent>"

DefaultTokens ==
    {"Token.Menu.Completions.Completion.Current",
     "Token.Menu.Completions.Completion",
     "Token.Menu.Completions.Meta.Current",
     "Token.Menu.Completions.Meta",
     "Token.Menu.Completions.ProgressButton",
     "Token.Menu.Completions.ProgressBar",
     "Token.Toolbar",
     "Token.Scrollbar",
     "Token.Scrollbar.Button",
     "Token.Toolbar.Off",
     "Token.Toolbar.On",
     "Token.Toolbar.Search",
     "Token.Toolbar.Search.Text",
     "Token.Toolbar.System",
     "Token.Toolbar.Arg",
     "Token.Toolbar.Arg.Text",
     "Token.AutoSuggestion",
     "Token.Aborted"}

\* tokens a prompt can name that the built-in table does not hold
ColorTokens == {"Token.A", "Token.B"}

AllTokens == DefaultTokens \cup ColorTokens

\* the literal of CustomStyle.styles
DefaultStyle(t) ==
    CASE t = "Token.Menu.Completions.Completion.Current" -> "bg:#00aaaa #000000"
      [] t = "Token.Menu.Completions.Completion" -> "bg:#008888 #ffffff"
      [] t = "Token.Menu.Completions.Meta.Current" -> "bg:#00aaaa #000000"
      [] t = "Token.Menu.Completions.Meta" -> "bg:#00aaaa #ffffff"
      [] t = "Token.Menu.Completions.ProgressButton" -> "bg:#003333"
      [] t = "Token.Menu.Completions.ProgressBar" -> "bg:#00aaaa"
      [] t = "Token.Toolbar" -> "bg:#222222 #cccccc"
      [] t = "Token.Scrollbar" -> "bg:#00aaaa"
      [] t = "Token.Scrollbar.Button" -> "bg:#003333"
      [] t = "Token.Toolbar.Off" -> "bg:#222222 #696969"
      [] t = "Token.Toolbar.On" -> "bg:#222222 #ffffff"
      [] t = "Token.Toolbar.Search" -> "noinherit bold"
      [] t = "Token.Toolbar.Search.Text" -> "nobold"
      [] t = "Token.Toolbar.System" -> "noinherit bold"
      [] t = "Token.Toolbar.Arg" -> "noinherit bold"
      [] t = "Token.Toolbar.Arg.Text" -> "nobold"
      [] t = "Token.AutoSuggestion" -> "#666666"
      [] t = "Token.Aborted" -> "#888888"
      [] OTHER -> Absent

Defaults == [t \in AllTokens |-> DefaultStyle(t)]

EmptyDict == [t \in AllTokens |-> Absent]

\* dict.update: the keys of e replace or extend those of d, the rest of d stays
Update(d, e) == [t \in AllTokens |-> IF e[t] # Absent THEN e[t] ELSE d[t]]

\* {t: s for (t, s) in zip(tokens, cstyles)}: zip stops at the shorter list and
\* a later pair replaces an earlier pair with the same token
ZipDict(tokens, cstyles) ==
    LET n == Min(Len(tokens), Len(cstyles))
        at(t) == {i \in 1..n : tokens[i] = t}
    IN  [t \in AllTokens |->
            IF at(t) = {} THEN Absent
            ELSE cstyles[CHOOSE i \in at(t) : \A j \in at(t) : j <= i]]

\* PROMPT_TOOLKIT_STYLES: None, or a dict
NoUserStyle == [none |-> TRUE, map |-> EmptyDict]
UserStyle(m) == [none |-> FALSE, map |-> m]

\* StylesOf with the two updates in the other order
StylesOf_UserFirst(prompt, userstyle) ==
    LET styles0 == Defaults
        styles1 == IF ~userstyle.none THEN Update(styles0, userstyle.map) ELSE styles0
    IN  Update(styles1, ZipDict(prompt.tokens, prompt.cstyles))

\* StylesOf with the user mapping merged into the built-in table itself, which
\* keeps it for the calls that follow
StylesOf_SharedTable(prompt, userstyle) ==
    LET styles0 == IF prevUser.none THEN Defaults
                   ELSE Update(Defaults, prevUser.map)
        styles1 == Update(styles0, ZipDict(prompt.tokens, prompt.cstyles))
    IN  IF ~userstyle.none THEN Update(styles1, userstyle.map) ELSE styles1

\* the styles dict of the CustomStyle class _get_prompt_tokens_and_style builds
StylesOf(prompt, userstyle) ==
    LET styles0 == Defaults
        styles1 == Update(styles0, ZipDict(prompt.tokens, prompt.cstyles))
    IN  IF ~userstyle.none THEN Update(styles1, userstyle.map) ELSE styles1

\* the pair _get_prompt_tokens_and_style returns: what get_tokens yields, and
\* the style table
get_prompt_tokens_and_style(prompt, e) ==
    [tokens |-> prompt.tokens, styles |-> StylesOf(prompt, e.userstyle)]

----------------------------------------------------------------------------
(* The history file and LimitedFileHistory *)

\* LimitedFileHistory.read_history_file: a missing file leaves the history
\* empty; an unreadable one raises PermissionError; otherwise one entry per line
read_history_file(f) ==
    IF ~f.exists THEN [raised |-> NoExc, strings |-> <<>>]
    ELSE IF ~f.canRead THEN [raised |-> "PermissionError", strings |-> <<>>]
    ELSE [raised |-> NoExc, strings |-> f.lines]

\* LimitedFileHistory.save_history_to_file: writes the last limit entries,
\* oldest first; without write permission raises and leaves the file alone
save_history_to_file(strings, f, limit) ==
    IF ~f.canWrite THEN [raised |-> "PermissionError", fs |-> f]
    ELSE [raised |-> NoExc,
          fs |-> [f EXCEPT !.exists = TRUE, !.lines = LastN(strings, limit)]]

\* setup_history with a missing file let through as an error of open()
setup_history_MissingRaises(e, f) ==
    LET r == read_history_file(f)
    IN  IF ~f.exists
        THEN [history |-> <<>>, warns |-> <<>>, raised |-> "FileNotFoundError"]
        ELSE IF r.raised = "PermissionError"
        THEN [history |-> r.strings, warns |-> <<"warn">>, raised |-> NoExc]
        ELSE [history |-> r.strings, warns |-> <<>>, raised |-> r.raised]

\* setup_history without the except clause
setup_history_NoCatch(e, f) ==
    LET r == read_history_file(f)
    IN  [history |-> r.strings, warns |-> <<>>, raised |-> r.raised]

\* setup_history: the history object, the warnings issued and what is raised
\* to the caller
setup_history(e, f) ==
    LET r == read_history_file(f)
    IN  IF r.raised = "PermissionError"
        THEN [history |-> r.strings, warns |-> <<"warn">>, raised |-> NoExc]
        ELSE [history |-> r.strings, warns |-> <<>>, raised |-> r.raised]

\* teardown_history with the size bound left out of the save call
teardown_history_NoLimit(h, e, f) ==
    LET hsize == e.hsize
        r == save_history_to_file(h, f, Len(h))
    IN  IF r.raised = "PermissionError"
        THEN [fs |-> r.fs, warns |-> <<"warn">>, raised |-> NoExc, limit |-> hsize]
        ELSE [fs |-> r.fs, warns |-> <<>>, raised |-> r.raised, limit |-> hsize]

\* teardown_history with the size bound remembered from setup_history
teardown_history_LoadSize(h, e, f) ==
    LET hsize == loadSize
        r == save_history_to_file(h, f, hsize)
    IN  IF r.raised = "PermissionError"
        THEN [fs |-> r.fs, warns |-> <<"warn">>, raised |-> NoExc, limit |-> hsize]
        ELSE [fs |-> r.fs, warns |-> <<>>, raised |-> r.raised, limit |-> hsize]

\* teardown_history without the except clause
teardown_history_NoCatch(h, e, f) ==
    LET hsize == e.hsize
        r == save_history_to_file(h, f, hsize)
    IN  [fs |-> r.fs, warns |-> <<>>, raised |-> r.raised, limit |-> hsize]

\* teardown_history: the file afterwards, the warnings issued, what is raised
\* to the caller, and the bound it handed to save_history_to_file
teardown_history(h, e, f) ==
    LET hsize == e.hsize
        r == save_history_to_file(h, f, hsize)
    IN  IF r.raised = "PermissionError"
        THEN [fs |-> r.fs, warns |-> <<"warn">>, raised |-> NoExc, limit |-> hsize]
        ELSE [fs |-> r.fs, warns |-> <<>>, raised |-> r.raised, limit |-> hsize]

----------------------------------------------------------------------------
(* Inputs *)

\* the prompts format_prompt_for_prompt_toolkit(self.prompt) can return
Prompts ==
    {[tokens |-> <<>>, cstyles |-> <<>>],
     [tokens |-> <<"Token.A", "Token.B">>, cstyles |-> <<"x", "y">>]}

UserStyles ==
    {NoUserStyle, UserStyle([EmptyDict EXCEPT !["Token.A"] = "z"])}

AllEnvs ==
    [hfile : {HistFile}, hsize : 0..MaxSize, mouse : BOOLEAN,
     autosuggest : BOOLEAN, userstyle : UserStyles]

\* the configurations that differ in XONSH_HISTORY_SIZE alone: mouse support
\* off, auto-suggestion on, no user styles
SizeEnvs ==
    {e \in AllEnvs : ~e.mouse /\ e.autosuggest /\ e.userstyle = NoUserStyle}

\* the history file when the session starts: missing (then nothing can be said
\* to be unreadable), or left by an earlier session
Files ==
    {[exists |-> FALSE, lines |-> <<>>, canRead |-> TRUE, canWrite |-> w] :
        w \in BOOLEAN}
    \cup [exists : {TRUE}, lines : {<<"b", "a">>},
          canRead : BOOLEAN, canWrite : BOOLEAN]

\* the configurations one executed command can leave behind: it sets at most
\* one variable
EnvAfter(e) ==
    {e2 \in AllEnvs :
        Cardinality({k \in {"hsize", "mouse", "autosuggest", "userstyle"} :
                        e2[k] # e[k]}) <= 1}

\* a call of a collaborator: its name, its argument and what it returned
Call(f) == [f |-> f, arg |-> "", ret |-> ""]
CallWith(f, a) == [f |-> f, arg |-> a, ret |-> ""]
CallRet(f, a, r) == [f |-> f, arg |-> a, ret |-> r]

\* the warnings ws as calls of warn
Warns(ws) == [i \in 1..Len(ws) |-> Call(ws[i])]

NoPrompt == [tokens |-> <<>>, cstyles |-> <<>>]

\* no get_input call is in progress
NoArgs ==
    [mouse_support |-> FALSE, auto_suggest |-> FALSE, prompt |-> NoPrompt,
     styles |-> EmptyDict, history |-> <<>>]

----------------------------------------------------------------------------
(* The state before PromptToolkitShell is constructed *)

Init ==
    /\ pc = "new"
    /\ env \in SizeEnvs
    /\ exitflag \in BOOLEAN
    /\ fs \in Files
    /\ historyNone = TRUE
    /\ history = <<>>
    /\ line = ""
    /\ readArgs = NoArgs
    /\ calls = <<>>
    /\ raised = NoExc
    /\ nAccepted = 0
    /\ nExec = 0
    /\ saveCalls = 0
    /\ loadSize = 0
    /\ prevUser = NoUserStyle

\* PromptToolkitShell.__init__
Construct ==
    /\ pc = "new"
    /\ LET r == setup_history(env, fs)
       IN  IF r.raised = NoExc
           THEN /\ history' = r.history
                /\ historyNone' = FALSE
                /\ calls' = <<Call("setup_history")>> \o Warns(r.warns)
                            \o <<Call("PromptToolkitCompleter"),
                                 Call("KeyBindingManager"),
                                 Call("load_xonsh_bindings")>>
                /\ raised' = NoExc
                /\ pc' = "idle"
           ELSE /\ calls' = <<Call("setup_history")>> \o Warns(r.warns)
                /\ raised' = r.raised
                /\ UNCHANGED <<history, historyNone, pc>>
    /\ loadSize' = env.hsize
    /\ UNCHANGED <<env, exitflag, fs, line, readArgs, nAccepted, nExec,
                   saveCalls, prevUser>>

\* the shell object exists and no method of it is running
AtRest == pc \in {"idle", "terminated", "raised"}

\* PromptToolkitShell.__del__
Del ==
    /\ AtRest
    /\ saveCalls < MaxSaves
    /\ IF ~historyNone
       THEN LET r == teardown_history(history, env, fs)
            IN  /\ fs' = r.fs
                /\ calls' = <<CallWith("teardown_history", ToString(r.limit))>>
                            \o Warns(r.warns)
                /\ raised' = r.raised
                /\ saveCalls' = saveCalls + 1
       ELSE /\ calls' = <<>>
            /\ raised' = NoExc
            /\ UNCHANGED <<fs, saveCalls>>
    /\ UNCHANGED <<pc, env, exitflag, historyNone, history, line, readArgs,
                   nAccepted, nExec, loadSize, prevUser>>

\* the configuration store is changed from outside while the shell is at rest
\* and not yet finalized
ConfigChange(e2) ==
    /\ AtRest
    /\ e2 # env
    /\ saveCalls = 0
    /\ env' = e2
    /\ calls' = <<>>
    /\ UNCHANGED <<pc, exitflag, fs, historyNone, history, line, readArgs,
                   raised, nAccepted, nExec, saveCalls, loadSize, prevUser>>

----------------------------------------------------------------------------
(* cmdloop *)

\* CmdloopEnter with print(intro) not under the test of intro
CmdloopEnter_AlwaysPrints(intro) ==
    /\ AtRest
    /\ saveCalls = 0
    /\ calls' = <<CallWith("print", intro), Call("AutoSuggestFromHistory")>>
    /\ raised' = NoExc
    /\ pc' = "top"
    /\ UNCHANGED <<env, exitflag, fs, historyNone, history, line, readArgs,
                   nAccepted, nExec, saveCalls, loadSize, prevUser>>

\* cmdloop up to the first test of the while loop; it is not called on an
\* object whose finalizer has run
CmdloopEnter(intro) ==
    /\ AtRest
    /\ saveCalls = 0
    /\ calls' = (IF intro # "" THEN <<CallWith("print", intro)>> ELSE <<>>)
                \o <<Call("AutoSuggestFromHistory")>>
    /\ raised' = NoExc
    /\ pc' = "top"
    /\ UNCHANGED <<env, exitflag, fs, historyNone, history, line, readArgs,
                   nAccepted, nExec, saveCalls, loadSize, prevUser>>

\* Handle with the KeyboardInterrupt clause leaving the loop as EOFError does
Handle_InterruptBreaks(exc, pre) ==
    /\ line' = ""
    /\ readArgs' = NoArgs
    /\ calls' = pre
    /\ raised' = (IF exc \in {"KeyboardInterrupt", "EOFError"} THEN NoExc ELSE exc)
    /\ pc' = (IF exc \in {"KeyboardInterrupt", "EOFError"} THEN "terminated"
              ELSE "raised")

\* Handle with a bare except clause in place of except KeyboardInterrupt
Handle_CatchAll(exc, pre) ==
    /\ line' = ""
    /\ readArgs' = NoArgs
    /\ raised' = NoExc
    /\ IF exc = "EOFError"
       THEN /\ calls' = pre
            /\ pc' = "terminated"
       ELSE /\ calls' = pre \o <<Call("reset_buffer")>>
            /\ pc' = "top"

\* the except clauses of cmdloop, entered with exc after the calls pre
Handle(exc, pre) ==
    /\ line' = ""
    /\ readArgs' = NoArgs
    /\ IF exc = "KeyboardInterrupt"
       THEN /\ calls' = pre \o <<Call("reset_buffer")>>
            /\ pc' = "top"
            /\ raised' = NoExc
       ELSE IF exc = "EOFError"
       THEN /\ calls' = pre
            /\ pc' = "terminated"
            /\ raised' = NoExc
       ELSE /\ calls' = pre
            /\ pc' = "raised"
            /\ raised' = exc

\* LoopExit with teardown_history called by cmdloop when the flag ends the loop
LoopExit_Saves ==
    /\ pc = "top"
    /\ exitflag
    /\ pc' = "terminated"
    /\ LET r == teardown_history(history, env, fs)
       IN  /\ fs' = r.fs
           /\ calls' = <<CallWith("teardown_history", ToString(r.limit))>>
                       \o Warns(r.warns)
    /\ UNCHANGED <<env, exitflag, historyNone, history, line, readArgs,
                   raised, nAccepted, nExec, saveCalls, loadSize, prevUser>>

\* while not builtins.__xonsh_exit__, when the flag is set: cmdloop returns
LoopExit ==
    /\ pc = "top"
    /\ exitflag
    /\ pc' = "terminated"
    /\ calls' = <<>>
    /\ UNCHANGED <<env, exitflag, fs, historyNone, history, line, readArgs,
                   raised, nAccepted, nExec, saveCalls, loadSize, prevUser>>

\* BeginRead with the exit flag tested on entry to cmdloop only
BeginRead_NoFlagTest(prompt) ==
    /\ pc = "top"
    /\ LET ts == get_prompt_tokens_and_style(prompt, env)
       IN  readArgs' = [mouse_support |-> env.mouse,
                        auto_suggest |-> env.autosuggest,
                        prompt |-> prompt,
                        styles |-> ts.styles,
                        history |-> history]
    /\ calls' = <<Call("_get_prompt_tokens_and_style"), Call("get_input")>>
    /\ pc' = "reading"
    /\ UNCHANGED <<env, exitflag, fs, historyNone, history, line, raised,
                   nAccepted, nExec, saveCalls, loadSize, prevUser>>

\* BeginRead with get_input given a history object of its own
BeginRead_FreshHistory(prompt) ==
    /\ pc = "top"
    /\ ~exitflag
    /\ LET ts == get_prompt_tokens_and_style(prompt, env)
       IN  readArgs' = [mouse_support |-> env.mouse,
                        auto_suggest |-> env.autosuggest,
                        prompt |-> prompt,
                        styles |-> ts.styles,
                        history |-> <<>>]
    /\ calls' = <<Call("_get_prompt_tokens_and_style"), Call("get_input")>>
    /\ pc' = "reading"
    /\ UNCHANGED <<env, exitflag, fs, historyNone, history, line, raised,
                   nAccepted, nExec, saveCalls, loadSize, prevUser>>

\* BeginRead with the suggestion provider passed whatever AUTO_SUGGEST holds
BeginRead_AlwaysSuggest(prompt) ==
    /\ pc = "top"
    /\ ~exitflag
    /\ LET ts == get_prompt_tokens_and_style(prompt, env)
       IN  readArgs' = [mouse_support |-> env.mouse,
                        auto_suggest |-> TRUE,
                        prompt |-> prompt,
                        styles |-> ts.styles,
                        history |-> history]
    /\ calls' = <<Call("_get_prompt_tokens_and_style"), Call("get_input")>>
    /\ pc' = "reading"
    /\ UNCHANGED <<env, exitflag, fs, historyNone, history, line, raised,
                   nAccepted, nExec, saveCalls, loadSize, prevUser>>

\* BeginRead with the style table built in the user's mapping itself:
\* styles = userstyle; styles.update(...)
BeginRead_WritesUserStyle(prompt) ==
    /\ pc = "top"
    /\ ~exitflag
    /\ LET ts == get_prompt_tokens_and_style(prompt, env)
       IN  /\ readArgs' = [mouse_support |-> env.mouse,
                           auto_suggest |-> env.autosuggest,
                           prompt |-> prompt,
                           styles |-> ts.styles,
                           history |-> history]
           /\ env' = IF env.userstyle.none THEN env
                     ELSE [env EXCEPT !.userstyle = UserStyle(ts.styles)]
    /\ calls' = <<Call("_get_prompt_tokens_and_style"), Call("get_input")>>
    /\ pc' = "reading"
    /\ UNCHANGED <<exitflag, fs, historyNone, history, line, raised,
                   nAccepted, nExec, saveCalls, loadSize, prevUser>>

\* one iteration from the while test to the call of get_input
BeginRead(prompt) ==
    /\ pc = "top"
    /\ ~exitflag
    /\ LET ts == get_prompt_tokens_and_style(prompt, env)
       IN  readArgs' = [mouse_support |-> env.mouse,
                        auto_suggest |-> env.autosuggest,
                        prompt |-> prompt,
                        styles |-> ts.styles,
                        history |-> history]
    /\ calls' = <<Call("_get_prompt_tokens_and_style"), Call("get_input")>>
    /\ pc' = "reading"
    /\ UNCHANGED <<env, exitflag, fs, historyNone, history, line, raised,
                   nAccepted, nExec, saveCalls, loadSize, prevUser>>

\* _get_prompt_tokens_and_style raises
PromptRaise(exc) ==
    /\ pc = "top"
    /\ ~exitflag
    /\ Handle(exc, <<Call("_get_prompt_tokens_and_style")>>)
    /\ UNCHANGED <<env, exitflag, fs, historyNone, history, nAccepted, nExec,
                   saveCalls, loadSize, prevUser>>

\* get_input returns l; the widget has appended an accepted non-empty line to
\* the history it was given
ReadReturn(l) ==
    /\ pc = "reading"
    /\ IF l # ""
       THEN /\ nAccepted < MaxAccepted
            /\ history' = Append(readArgs.history, l)
            /\ nAccepted' = nAccepted + 1
       ELSE UNCHANGED <<history, nAccepted>>
    /\ line' = l
    /\ readArgs' = NoArgs
    /\ calls' = <<>>
    /\ pc' = "dispatch"
    /\ prevUser' = env.userstyle
    /\ UNCHANGED <<env, exitflag, fs, historyNone, raised, nExec, saveCalls,
                   loadSize>>

\* get_input raises: Ctrl-C is KeyboardInterrupt, Ctrl-D is EOFError
ReadRaise(exc) ==
    /\ pc = "reading"
    /\ Handle(exc, <<>>)
    /\ prevUser' = env.userstyle
    /\ UNCHANGED <<env, exitflag, fs, historyNone, history, nAccepted, nExec,
                   saveCalls, loadSize>>

\* Emptyline with the empty line handed on to precmd and the executor
Emptyline_Executes ==
    /\ pc = "dispatch"
    /\ line = ""
    /\ calls' = <<CallRet("precmd", line, line), CallWith("default", line)>>
    /\ nExec' = nExec + 1
    /\ pc' = "top"
    /\ UNCHANGED <<env, exitflag, fs, historyNone, history, line, readArgs, raised,
                   nAccepted, saveCalls, loadSize, prevUser>>

\* if not line: self.emptyline()
Emptyline ==
    /\ pc = "dispatch"
    /\ line = ""
    /\ calls' = <<Call("emptyline")>>
    /\ pc' = "top"
    /\ UNCHANGED <<env, exitflag, fs, historyNone, history, line, readArgs,
                   raised, nAccepted, nExec, saveCalls, loadSize, prevUser>>

\* Precmd with the hook's result dropped: self.precmd(line) without assignment
Precmd_ResultDropped(out) ==
    /\ pc = "dispatch"
    /\ line # ""
    /\ calls' = <<CallRet("precmd", line, out)>>
    /\ pc' = "default"
    /\ UNCHANGED <<env, exitflag, fs, historyNone, history, line, readArgs, raised,
                   nAccepted, nExec, saveCalls, loadSize, prevUser>>

\* else: line = self.precmd(line), which returns out
Precmd(out) ==
    /\ pc = "dispatch"
    /\ line # ""
    /\ calls' = <<CallRet("precmd", line, out)>>
    /\ line' = out
    /\ pc' = "default"
    /\ UNCHANGED <<env, exitflag, fs, historyNone, history, readArgs, raised,
                   nAccepted, nExec, saveCalls, loadSize, prevUser>>

\* PrecmdRaise with the try statement closed after the get_input call
PrecmdRaise_Uncaught(exc) ==
    /\ pc = "dispatch"
    /\ line # ""
    /\ line' = ""
    /\ readArgs' = NoArgs
    /\ calls' = <<CallWith("precmd", line)>>
    /\ pc' = "raised"
    /\ raised' = exc
    /\ UNCHANGED <<env, exitflag, fs, historyNone, history, nAccepted, nExec,
                   saveCalls, loadSize, prevUser>>

\* self.precmd(line) raises
PrecmdRaise(exc) ==
    /\ pc = "dispatch"
    /\ line # ""
    /\ Handle(exc, <<CallWith("precmd", line)>>)
    /\ UNCHANGED <<env, exitflag, fs, historyNone, history, nAccepted, nExec,
                   saveCalls, loadSize, prevUser>>

\* self.default(line): the executor runs the command, which may set the exit
\* flag and change the configuration, and returns (outcome NoExc) or raises
Default(setexit, e2, outcome) ==
    /\ pc = "default"
    /\ nExec' = nExec + 1
    /\ exitflag' = (exitflag \/ setexit)
    /\ env' = e2
    /\ IF outcome = NoExc
       THEN /\ calls' = <<CallWith("default", line)>>
            /\ pc' = "top"
            /\ line' = ""
            /\ UNCHANGED <<readArgs, raised>>
       ELSE Handle(outcome, <<CallWith("default", line)>>)
    /\ UNCHANGED <<fs, historyNone, history, nAccepted, saveCalls, loadSize, prevUser>>

Next ==
    \/ Construct
    \/ Del
    \/ \E e2 \in SizeEnvs : ConfigChange(e2)
    \/ \E intro \in {"", "intro"} : CmdloopEnter(intro)
    \/ LoopExit
    \/ \E prompt \in Prompts : BeginRead(prompt)
    \/ \E exc \in Exc : PromptRaise(exc)
    \/ \E l \in Lines \cup {""} : ReadReturn(l)
    \/ \E exc \in Exc : ReadRaise(exc)
    \/ Emptyline
    \/ \E out \in Lines : Precmd(out)
    \/ \E exc \in Exc : PrecmdRaise(exc)
    \/ \E setexit \in BOOLEAN, e2 \in EnvAfter(env) \cap SizeEnvs, outcome \in Exc \cup {NoExc} :
           Default(setexit, e2, outcome)

Spec == Init /\ [][Next]_vars

----------------------------------------------------------------------------
(* Style resolution over every prompt of up to MaxPrompt tokens and every   *)
(* user mapping over UserTokens: the loop of a session that started without *)
(* a history file, from its first while test on.                            *)

\* a prompt names colour tokens, or a token of the built-in table
PromptTokens == ColorTokens \cup {"Token.Toolbar"}
CStyles == {"x", "y"}
UserTokens == {"Token.A", "Token.Toolbar", "Token.Aborted"}

StylePrompts ==
    UNION {{[tokens |-> ts, cstyles |-> cs] :
               ts \in [1..k -> PromptTokens], cs \in [1..k -> CStyles]} :
           k \in 0..MaxPrompt}

StyleUserStyles ==
    {NoUserStyle} \cup
    {UserStyle([t \in AllTokens |-> IF t \in S THEN "z" ELSE Absent]) :
        S \in SUBSET UserTokens}

InitStyle ==
    /\ pc = "top"
    /\ env \in [hfile : {HistFile}, hsize : {MaxSize}, mouse : {FALSE},
                 autosuggest : {TRUE}, userstyle : StyleUserStyles]
    /\ exitflag = FALSE
    /\ fs = [exists |-> FALSE, lines |-> <<>>, canRead |-> TRUE, canWrite |-> TRUE]
    /\ historyNone = FALSE
    /\ history = <<>>
    /\ line = ""
    /\ readArgs = NoArgs
    /\ calls = <<Call("AutoSuggestFromHistory")>>
    /\ raised = NoExc
    /\ nAccepted = 0
    /\ nExec = 0
    /\ saveCalls = 0
    /\ loadSize = MaxSize
    /\ prevUser = NoUserStyle

NextStyle ==
    \/ \E prompt \in StylePrompts : BeginRead(prompt)
    \/ \E exc \in Exc : ReadRaise(exc)

SpecStyle == InitStyle /\ [][NextStyle]_vars

----------------------------------------------------------------------------
(* A session over a loaded, writable history file in which the commands it   *)
(* executes, and its embedder between cmdloop calls, change MOUSE_SUPPORT,   *)
(* AUTO_SUGGEST and PROMPT_TOOLKIT_STYLES; XONSH_HISTORY_SIZE stays MaxSize. *)

ConfigEnvs == {e \in AllEnvs : e.hsize = MaxSize}

InitConfig ==
    /\ pc = "new"
    /\ env = [hfile |-> HistFile, hsize |-> MaxSize, mouse |-> FALSE,
              autosuggest |-> TRUE, userstyle |-> NoUserStyle]
    /\ exitflag = FALSE
    /\ fs = [exists |-> TRUE, lines |-> <<"b", "a">>, canRead |-> TRUE,
             canWrite |-> TRUE]
    /\ historyNone = TRUE
    /\ history = <<>>
    /\ line = ""
    /\ readArgs = NoArgs
    /\ calls = <<>>
    /\ raised = NoExc
    /\ nAccepted = 0
    /\ nExec = 0
    /\ saveCalls = 0
    /\ loadSize = 0
    /\ prevUser = NoUserStyle

NextConfig ==
    \/ Construct
    \/ Del
    \/ \E e2 \in ConfigEnvs : ConfigChange(e2)
    \/ \E intro \in {"", "intro"} : CmdloopEnter(intro)
    \/ LoopExit
    \/ \E prompt \in Prompts : BeginRead(prompt)
    \/ \E exc \in Exc : PromptRaise(exc)
    \/ \E l \in Lines \cup {""} : ReadReturn(l)
    \/ \E exc \in Exc : ReadRaise(exc)
    \/ Emptyline
    \/ \E out \in Lines : Precmd(out)
    \/ \E exc \in Exc : PrecmdRaise(exc)
    \/ \E setexit \in BOOLEAN, e2 \in EnvAfter(env) \cap ConfigEnvs,
          outcome \in Exc \cup {NoExc} :
           Default(setexit, e2, outcome)

SpecConfig == InitConfig /\ [][NextConfig]_vars

----------------------------------------------------------------------------
(* Properties *)

Names(cs) == {cs[i].f : i \in DOMAIN cs}

\* the calls one iteration of the loop body makes
IterationCalls ==
    {"_get_prompt_tokens_and_style", "get_input", "emptyline", "precmd", "default"}

\* C1 (as stated): an EOFError out of get_input ends the loop and that step
\* makes exactly one teardown_history call.
C1_EofTriggersOneSave ==
    [][ReadRaise("EOFError") =>
          (pc' = "terminated" /\ saveCalls' = saveCalls + 1)]_vars

\* C2: a KeyboardInterrupt out of get_input leaves the history and the file
\* as they were, calls no executor, calls reset_buffer and nothing else, and
\* puts the loop back at its while test with the exit flag unset, so the next
\* iteration reads again; it never ends the loop.
C2_InterruptKeepsReading ==
    [][ReadRaise("KeyboardInterrupt") =>
          /\ history' = history
          /\ fs' = fs
          /\ nExec' = nExec
          /\ calls' = <<Call("reset_buffer")>>
          /\ pc' = "top"
          /\ ~exitflag']_vars

C2_Witness ==
    /\ pc = "top"
    /\ calls = <<Call("reset_buffer")>>
    /\ ~exitflag
    /\ Len(history) >= 2
    /\ nAccepted >= 1

C4_ExecutorOncePerLine ==
    pc \in {"top", "terminated", "raised"} => nExec = nAccepted

\* C4 (amended): a non-empty line goes to precmd first, without an executor
\* call; once precmd has returned, the next step is the one executor call of
\* the iteration, made with what precmd returned; the executor is called
\* nowhere else, so it is called at most once per accepted non-empty line.
C4_ExecutorAfterPrecmd ==
    [][/\ (pc = "dispatch" /\ line # "") =>
            (/\ Len(calls') >= 1
             /\ calls'[1].f = "precmd"
             /\ calls'[1].arg = line
             /\ nExec' = nExec
             /\ pc' \in {"default", "top", "terminated", "raised"})
       /\ pc = "default" =>
            (/\ Len(calls) = 1
             /\ calls[1].f = "precmd"
             /\ Len(calls') >= 1
             /\ calls'[1] = CallWith("default", calls[1].ret)
             /\ nExec' = nExec + 1)
       /\ nExec' # nExec => pc = "default"
       /\ nExec' <= nAccepted']_vars

\* one line's precmd raised, another line was transformed and executed
C4_Witness ==
    /\ pc = "top"
    /\ nAccepted = 2
    /\ nExec = 1
    /\ Len(calls) = 1
    /\ calls[1].f = "default"
    /\ calls[1].arg # history[Len(history)]

\* C9: while the exit flag is set no step calls the prompt builder, get_input,
\* a hook or the executor; at the while test the only step is the return of
\* cmdloop; and the flag stays set.
C9_ExitFlagStopsLoop ==
    [][exitflag =>
          /\ Names(calls') \cap IterationCalls = {}
          /\ pc = "top" => pc' = "terminated"
          /\ pc' # "reading"
          /\ nExec' = nExec
          /\ exitflag']_vars

\* the flag was set by an executed command and the loop returned at its test
C9_Witness ==
    /\ pc = "terminated"
    /\ exitflag
    /\ nExec >= 1
    /\ calls = <<>>

\* the last step was a __del__ whose save_history_to_file call succeeded
Saved ==
    /\ Len(calls) = 1
    /\ calls[1].f = "teardown_history"
    /\ raised = NoExc

\* C5: after a successful save, a fresh setup_history of the same (readable)
\* file yields the last min(count, max_size) entries of the in-memory
\* sequence, in their order.
C5_SaveThenLoad ==
    (Saved /\ fs.canRead) =>
        LET loaded == setup_history(env, fs).history
            n == Len(history)
            k == Min(n, env.hsize)
        IN  /\ Len(loaded) = k
            /\ \A i \in 1..k : loaded[i] = history[n - k + i]

\* a history loaded from the file and appended to, cut to two distinct entries
C5_Witness ==
    /\ Saved
    /\ fs.canRead
    /\ nAccepted >= 1
    /\ Len(history) > env.hsize
    /\ env.hsize = 2
    /\ Len(history) > nAccepted
    /\ fs.lines[1] # fs.lines[2]

\* C6: with no history file, __init__ completes with an empty history, raises
\* nothing and warns of nothing.
C6_MissingFileEmptyHistory ==
    [][(pc = "new" /\ ~fs.exists) =>
          /\ pc' = "idle"
          /\ ~historyNone'
          /\ history' = <<>>
          /\ raised' = NoExc
          /\ "warn" \notin Names(calls')]_vars

\* the loop reads in a session that started without a history file
C6_Witness ==
    /\ pc = "reading"
    /\ ~fs.exists
    /\ history = <<>>

\* C7: a save made when XONSH_HISTORY_SIZE differs from its value at load
\* time hands the current value to save_history_to_file and the file is cut
\* to the current value.
C7_SizeAtSaveTime ==
    (Saved /\ env.hsize # loadSize) =>
        /\ calls[1].arg = ToString(env.hsize)
        /\ fs.lines = LastN(history, env.hsize)
        /\ Len(fs.lines) <= env.hsize

\* the size was changed after the load, and the load-time size would have
\* left another file
C7_Witness ==
    /\ Saved
    /\ env.hsize # loadSize
    /\ nExec >= 1
    /\ fs.lines # LastN(history, loadSize)
    /\ fs.lines # <<>>

\* C10: a __del__ whose save lacks write permission calls warn once, raises
\* nothing, and leaves the in-memory history and the file as they were.
C10_SaveWithoutPermission ==
    [][(AtRest /\ saveCalls' = saveCalls + 1 /\ ~fs.canWrite) =>
          /\ Len(calls') = 2
          /\ calls'[1].f = "teardown_history"
          /\ calls'[2] = Call("warn")
          /\ raised' = NoExc
          /\ history' = history
          /\ fs' = fs
          /\ pc' = pc]_vars

C10_Witness ==
    /\ saveCalls >= 1
    /\ ~fs.canWrite
    /\ fs.exists
    /\ Len(calls) = 2
    /\ calls[2] = Call("warn")
    /\ nAccepted >= 1
    /\ history # fs.lines
    /\ fs.lines = <<"b", "a">>

\* the indices at which the prompt of the read in progress names token t
PromptAt(t) ==
    {i \in 1..Len(readArgs.prompt.tokens) : readArgs.prompt.tokens[i] = t}

\* C8: the style table handed to get_input maps each token to the user
\* mapping's value if the user mapping names it, otherwise to the prompt's
\* (last) style for it if the prompt names it, otherwise to its built-in
\* default; without a user mapping the second and third case remain.
C8_StyleLayers ==
    pc = "reading" =>
        \A t \in AllTokens :
            readArgs.styles[t] =
                IF ~env.userstyle.none /\ env.userstyle.map[t] # Absent
                THEN env.userstyle.map[t]
                ELSE IF PromptAt(t) # {}
                THEN readArgs.prompt.cstyles[
                         CHOOSE i \in PromptAt(t) : \A j \in PromptAt(t) : j <= i]
                ELSE DefaultStyle(t)

\* the prompt {A: "x", B: "y"} under the user mapping {A: "z"}
C8_Witness ==
    /\ pc = "reading"
    /\ readArgs.prompt = [tokens |-> <<"Token.A", "Token.B">>, cstyles |-> <<"x", "y">>]
    /\ env.userstyle = UserStyle([EmptyDict EXCEPT !["Token.A"] = "z"])
    /\ readArgs.styles["Token.A"] = "z"
    /\ readArgs.styles["Token.B"] = "y"
    /\ \A t \in DefaultTokens : readArgs.styles[t] = DefaultStyle(t)

\* C11: constructing the shell over a history file it may not read issues one
\* warning after setup_history's call and nothing is raised: the constructor
\* goes on to the completer and the key bindings, and the session holds an
\* empty history.
C11_UnreadableFileWarns ==
    [][(pc = "new" /\ fs.exists /\ ~fs.canRead) =>
          /\ pc' = "idle"
          /\ raised' = NoExc
          /\ ~historyNone'
          /\ history' = <<>>
          /\ Len(calls') = 5
          /\ calls'[1] = Call("setup_history")
          /\ calls'[2] = Call("warn")
          /\ {i \in DOMAIN calls' : calls'[i].f = "warn"} = {2}
          /\ calls'[5] = Call("load_xonsh_bindings")]_vars

\* a read in progress in a session whose two-entry file could not be loaded
C11_Witness ==
    /\ pc = "reading"
    /\ fs.exists /\ ~fs.canRead /\ fs.lines = <<"b", "a">>
    /\ history = <<>>
    /\ ~historyNone

\* C12: over the lifetime of one shell object the history is saved at most
\* once: no state is reached in which teardown_history has made a second save
\* call for the object.
C12_SavedAtMostOnce == saveCalls <= 1

\* C13: every get_input call is handed self.history; a non-empty line it
\* returns is by then the last entry of that history; and between that return
\* and the next get_input call nothing else changes the history, so the next
\* read starts with the accepted line as the last entry.
C13_AcceptedLineAppended ==
    [][/\ (pc' = "reading" => readArgs'.history = history')
       /\ ((pc = "reading" /\ pc' = "dispatch" /\ line' # "") =>
              /\ history' = Append(history, line')
              /\ history'[Len(history')] = line')
       /\ (history' # history =>
              \/ pc = "new"
              \/ pc = "reading" /\ pc' = "dispatch" /\ line' # "")]_vars

\* the second read of a session that loaded <<"b", "a">> and accepted "b"
C13_Witness ==
    /\ pc = "reading"
    /\ nAccepted = 1
    /\ nExec = 1
    /\ history = <<"b", "a", "b">>
    /\ readArgs.history = history

\* a step of the loop body in which the prompt builder, get_input, precmd or
\* the executor raises exc
BodyRaises(exc) ==
    \/ PromptRaise(exc)
    \/ ReadRaise(exc)
    \/ PrecmdRaise(exc)
    \/ \E setexit \in BOOLEAN : Default(setexit, env', exc)

\* C14: an exception that is neither KeyboardInterrupt nor EOFError, raised by
\* the prompt builder, get_input, precmd or the executor, is let out of
\* cmdloop to its caller: the buffer is not reset, no further call is made in
\* the step, and cmdloop is no longer running afterwards.
C14_OtherFailuresPropagate ==
    [][BodyRaises("Error") =>
          /\ pc' = "raised"
          /\ raised' = "Error"
          /\ "reset_buffer" \notin Names(calls')
          /\ Len(calls') <= 1]_vars

\* the executor has raised on the first accepted line and cmdloop has let it out
C14_Witness ==
    /\ pc = "raised"
    /\ raised = "Error"
    /\ nExec = 1
    /\ Len(calls) = 1
    /\ calls[1].f = "default"

\* cmdloop is running: at the while test, in get_input, or dispatching a line
InLoop == pc \in {"top", "reading", "dispatch", "default"}

\* C15: setup_history is called by the constructor only, hence once and before
\* any read; teardown_history is called only while no cmdloop is running; the
\* file changes only in a step that calls teardown_history; and no step taken
\* while cmdloop is running loads, saves or changes the file.
C15_FileTouchedAtSetupAndTeardown ==
    [][/\ ("setup_history" \in Names(calls') => pc = "new" /\ historyNone)
       /\ ("teardown_history" \in Names(calls') => AtRest /\ ~historyNone)
       /\ (fs' # fs => "teardown_history" \in Names(calls'))
       /\ (InLoop =>
              /\ fs' = fs
              /\ Names(calls') \cap {"setup_history", "teardown_history"} = {})
       /\ (InLoop' => ~historyNone')]_vars

\* after a session that read, executed a line and ended, the finalizer has
\* rewritten the loaded file
C15_Witness ==
    /\ pc = "terminated"
    /\ nExec = 1
    /\ saveCalls = 1
    /\ calls[1].f = "teardown_history"
    /\ fs.lines # <<"b", "a">>
    /\ fs.lines = LastN(history, env.hsize)
    /\ Len(history) = 3

\* C16: at every get_input call the mouse_support argument is MOUSE_SUPPORT as
\* the store holds it in that iteration, and the suggestion provider is passed
\* exactly when AUTO_SUGGEST holds in that iteration; the values of an earlier
\* iteration play no part.
C16_FlagsReadEachIteration ==
    pc = "reading" =>
        /\ readArgs.mouse_support = env.mouse
        /\ readArgs.auto_suggest = env.autosuggest

\* the third read of a session that started with mouse support off and
\* suggestions on, after two commands that each changed one flag
C16_Witness ==
    /\ pc = "reading"
    /\ nExec = 2
    /\ env.mouse /\ readArgs.mouse_support
    /\ ~env.autosuggest /\ ~readArgs.auto_suggest

\* C17: the configuration store changes only in a step of the executed command
\* or of the embedder between shell operations: the constructor, the
\* finalizer, the entry and exit of cmdloop, the prompt and style building, the
\* read, emptyline, precmd and the except clauses leave all five variables as
\* they are, and style resolution leaves the user's style mapping as it is.
C17_EngineLeavesConfiguration ==
    [][/\ (env' # env =>
              \/ pc = "default" /\ calls'[1].f = "default"
              \/ ConfigChange(env'))
       /\ ("_get_prompt_tokens_and_style" \in Names(calls') =>
              env'.userstyle = env.userstyle)]_vars

\* a session that read under the user mapping {A: "z"}, ended and saved, with
\* the mapping still what it was
C17_Witness ==
    /\ pc = "terminated"
    /\ saveCalls = 1
    /\ Names(calls) = {"teardown_history"}
    /\ env.userstyle = UserStyle([EmptyDict EXCEPT !["Token.A"] = "z"])
    /\ prevUser = env.userstyle

\* the current user mapping names token t
UserNames(t) == ~env.userstyle.none /\ env.userstyle.map[t] # Absent

\* C18: the style table of a get_input call is the one the built-in table,
\* the prompt of that call and the user mapping of that call determine: a
\* token neither of them names has its built-in style, or none if the built-in
\* table lacks it, whatever the table of the call before held.
C18_StyleTableFresh ==
    pc = "reading" =>
        /\ readArgs.styles = StylesOf(readArgs.prompt, env.userstyle)
        /\ \A t \in AllTokens :
              (PromptAt(t) = {} /\ ~UserNames(t)) =>
                  readArgs.styles[t] = DefaultStyle(t)

\* a read with the empty prompt and no user mapping, after a read styled with
\* the user mapping {A: "z"}
C18_Witness ==
    /\ pc = "reading"
    /\ prevUser = UserStyle([EmptyDict EXCEPT !["Token.A"] = "z"])
    /\ readArgs.prompt = NoPrompt
    /\ env.userstyle = NoUserStyle
    /\ readArgs.styles["Token.A"] = Absent
    /\ readArgs.styles["Token.B"] = Absent
    /\ readArgs.styles = Defaults

\* C19 as claimed: print is called only by the first cmdloop call on the
\* object, never by a later one.
C19_IntroOnlyOnFirstCall ==
    [][\A i \in DOMAIN calls' :
          calls'[i].f = "print" => (pc = "idle" /\ pc' = "top")]_vars

\* C19: print is called only on entry to cmdloop, as its first call and with
\* non-empty text, hence before the first read of that cmdloop call and not in
\* any iteration; every cmdloop call given intro text prints it, the first
\* and the later ones alike, and a cmdloop call given none prints nothing.
C19_IntroOncePerCall ==
    [][/\ \A i \in DOMAIN calls' :
             calls'[i].f = "print" =>
                 (i = 1 /\ AtRest /\ pc' = "top" /\ calls'[i].arg # "")
       /\ (CmdloopEnter("intro") =>
              calls' = <<CallWith("print", "intro"), Call("AutoSuggestFromHistory")>>)
       /\ (CmdloopEnter("") => "print" \notin Names(calls'))]_vars

\* a second cmdloop call, after one that accepted a line, prints its intro
C19_Witness ==
    /\ pc = "top"
    /\ nAccepted >= 1
    /\ calls[1] = CallWith("print", "intro")

\* C20: KeyboardInterrupt raised by the prompt builder, precmd or the executor
\* is handled as one raised by get_input is: reset_buffer is the step's last
\* call, nothing is let out, and cmdloop is back at its while test; EOFError
\* raised by precmd or the executor ends cmdloop as one raised by get_input
\* does, with no reset and nothing let out.
C20_HandlersCoverBody ==
    [][/\ (BodyRaises("KeyboardInterrupt") =>
              /\ pc' = "top"
              /\ raised' = NoExc
              /\ calls'[Len(calls')] = Call("reset_buffer")
              /\ line' = "")
       /\ (BodyRaises("EOFError") =>
              /\ pc' = "terminated"
              /\ raised' = NoExc
              /\ "reset_buffer" \notin Names(calls')
              /\ line' = "")]_vars

\* the executor was interrupted on the line "a"; the buffer is reset and the
\* loop is at its while test with the exit flag clear
C20_Witness ==
    /\ pc = "top"
    /\ ~exitflag
    /\ nExec = 1
    /\ calls = <<CallWith("default", "a"), Call("reset_buffer")>>

====
